---- MODULE Spec2Model ----
(***************************************************************************)
(* Model of the YouTube PubSubHubbub notifier (src/src/server.js): the     *)
(* YouTubeNotifier facade, its subscription request builder and its HTTP   *)
(* callback handler.                                                       *)
(*                                                                         *)
(* JavaScript values are represented as follows.                           *)
(*   - an object is a function whose DOMAIN is the set of its own keys, so *)
(*     a missing key is a key outside the DOMAIN;                          *)
(*   - a string the code takes apart (topic, channel id, signature header, *)
(*     digest) is a sequence of one-character strings; a string the code   *)
(*     only passes along is a TLA+ string;                                 *)
(*   - an array is a sequence.                                             *)
(***************************************************************************)
EXTENDS Integers, Sequences, FiniteSets, TLC

\* this           : the fields of the YouTubeNotifier instance
\* listenerThrows : whether a listener the host registered throws when called
\* op             : the operation in progress (a request being handled, a
\*                  subscribe or unsubscribe call), "idle" between operations
\* trace          : what the operation in progress did, in program order:
\*                  responses sent, events emitted, hub requests posted, an
\*                  exception leaving the operation
VARIABLES this, listenerThrows, op, trace

vars == <<this, listenerThrows, op, trace>>

(***************************************************************************)
(* Bounds of the model.                                                    *)
(***************************************************************************)
\* longest entry sequence of a parsed feed
MaxEntries == 2
\* longest collection of channel ids handed to subscribe / unsubscribe
MaxChannels == 2
\* longest X-Hub-Signature header enumerated character by character
MaxHeaderLen == 3

(***************************************************************************)
(* Strings.                                                                *)
(***************************************************************************)
base_topic ==
  <<
     "h", "t", "t", "p", "s", ":", "/", "/", "w", "w", "w", ".", "y", "o",
     "u", "t", "u", "b", "e", ".", "c", "o", "m", "/", "x", "m", "l", "/",
     "f", "e", "e", "d", "s", "/", "v", "i", "d", "e", "o", "s", ".", "x",
     "m", "l", "?", "c", "h", "a", "n", "n", "e", "l", "_", "i", "d", "="
  >>

UpperChars == <<"A","B","C","D","E","F","G","H","I","J","K","L","M",
                "N","O","P","Q","R","S","T","U","V","W","X","Y","Z">>
LowerChars == <<"a","b","c","d","e","f","g","h","i","j","k","l","m",
                "n","o","p","q","r","s","t","u","v","w","x","y","z">>

\* String.prototype.toUpperCase, character by character
toUpperCase(s) ==
  [i \in 1..Len(s) |->
     IF \E j \in 1..Len(LowerChars) : LowerChars[j] = s[i]
     THEN UpperChars[CHOOSE j \in 1..Len(LowerChars) : LowerChars[j] = s[i]]
     ELSE s[i]]

\* String.prototype.toLowerCase, character by character
toLowerCase(s) ==
  [i \in 1..Len(s) |->
     IF \E j \in 1..Len(UpperChars) : UpperChars[j] = s[i]
     THEN LowerChars[CHOOSE j \in 1..Len(UpperChars) : UpperChars[j] = s[i]]
     ELSE s[i]]

\* s.indexOf(pat): the first position (1-based) where pat occurs in s, 0 if none
IndexOf(s, pat) ==
  LET hits == {i \in 1..(Len(s) - Len(pat) + 1) :
                 SubSeq(s, i, i + Len(pat) - 1) = pat}
  IN IF hits = {} THEN 0 ELSE CHOOSE i \in hits : \A j \in hits : i <= j

\* s.replace(pat, ''): removes the first occurrence of pat, wherever it is
Replace(s, pat) ==
  LET i == IndexOf(s, pat)
  IN IF i = 0 THEN s
     ELSE SubSeq(s, 1, i - 1) \o SubSeq(s, i + Len(pat), Len(s))

\* s.split('='): the pieces of s between the '=' characters
RECURSIVE Split(_)
Split(s) ==
  LET i == IndexOf(s, <<"=">>)
  IN IF i = 0 THEN <<s>>
     ELSE <<SubSeq(s, 1, i - 1)>> \o Split(SubSeq(s, i + 1, Len(s)))

(***************************************************************************)
(* Objects.                                                                *)
(***************************************************************************)
\* own property test
Has(o, k) == k \in DOMAIN o

\* an object from optional fields: opts[k] is <<>> (no such key) or <<value>>
Obj(opts) == [k \in {x \in DOMAIN opts : opts[x] # <<>>} |-> opts[k][1]]

\* !!o[k] for a property holding a TLA+ string
Truthy(o, k) == Has(o, k) /\ o[k] # ""

\* !!o[k] for a property holding a character sequence
TruthySeq(o, k) == Has(o, k) /\ o[k] # <<>>

(***************************************************************************)
(* Effects recorded in the trace.                                          *)
(***************************************************************************)
\* res.status(code).set('Content-Type', type).end(body)
Respond(code, type, body) ==
  [kind |-> "respond", status |-> code, type |-> type, body |-> body]

\* res.sendStatus(code): the status with its standard reason phrase as body
sendStatus(code) ==
  Respond(code, "text/plain",
          CASE code = 200 -> "OK"
            [] code = 400 -> "Bad Request"
            [] code = 403 -> "Forbidden"
            [] OTHER -> "")

\* an exception leaving the operation
Throw(what) == [kind |-> "throw", error |-> what]

\* EventEmitter.emit(name, data): the listeners run synchronously, and an
\* exception of a listener leaves emit
emit(name, data, throws) ==
  <<[kind |-> "emit", name |-> name, data |-> data]>>
    \o (IF throws THEN <<Throw("listener")>> ELSE <<>>)

(***************************************************************************)
(* The notifier.                                                           *)
(***************************************************************************)
DefaultHubUrl == "https://pubsubhubbub.appspot.com/"
DefaultPort == 3000
DefaultPath == "/"

\* constructor(options), for options that carry a callback URL
Constructor(options) ==
  Obj([hubCallback |-> <<options.hubCallback>>,
       hubUrl      |-> <<IF Truthy(options, "hubUrl")
                         THEN options.hubUrl ELSE DefaultHubUrl>>,
       secret      |-> IF Has(options, "secret")
                       THEN <<options.secret>> ELSE <<>>,
       middleware  |-> <<Has(options, "middleware") /\ options.middleware>>,
       port        |-> <<IF Has(options, "port") /\ options.port # 0
                         THEN options.port ELSE DefaultPort>>,
       path        |-> <<IF Truthy(options, "path")
                         THEN options.path ELSE DefaultPath>>])

\* the options the model constructs notifiers from
Secrets == {"k1", "k2"}
OptionsSet ==
  { Obj([hubCallback |-> <<"http://example.com/cb">>,
         hubUrl      |-> u,
         secret      |-> s]) :
      u \in {<<>>, <<"https://hub.example/">>},
      s \in {<<>>, <<"">>} \cup {<<k>> : k \in Secrets} }

(***************************************************************************)
(* Subscription request builder.                                           *)
(***************************************************************************)
\* a JavaScript value handed to subscribe / unsubscribe
Str(s) == [type |-> "string", val |-> s]
Num(n) == [type |-> "number", val |-> n]
Arr(a) == [type |-> "array", val |-> a]
Undefined == [type |-> "undefined"]

\* base_topic + channel_id: a number is converted to its digits
Concat(prefix, v) ==
  IF v.type = "string" THEN prefix \o v.val
  ELSE IF v.type = "number" THEN prefix \o <<ToString(v.val)>>
  ELSE prefix \o <<"undefined">>

\* the value of a form field, <<>> when the form has no such field
Field(form, k) ==
  LET hits == {i \in 1..Len(form) : form[i][1] = k}
  IN IF hits = {} THEN <<>> ELSE <<form[CHOOSE i \in hits : TRUE][2]>>

\* _makeRequest adding hub.secret whenever the option was given, even empty
_makeRequest_AnySecret(self, channel_id, type) ==
  LET topic == Concat(base_topic, channel_id)
      data  == <<<<"hub.callback", self.hubCallback>>,
                 <<"hub.mode", type>>,
                 <<"hub.topic", topic>>>>
               \o (IF Has(self, "secret")
                   THEN <<<<"hub.secret", self.secret>>>> ELSE <<>>)
  IN <<[kind |-> "post", url |-> self.hubUrl, form |-> data,
        contentType |-> "application/x-www-form-urlencoded"]>>

\* _makeRequest(channel_id, type): the request posted to the hub
_makeRequest(self, channel_id, type) ==
  LET topic == Concat(base_topic, channel_id)
      data  == <<<<"hub.callback", self.hubCallback>>,
                 <<"hub.mode", type>>,
                 <<"hub.topic", topic>>>>
               \o (IF Truthy(self, "secret")
                   THEN <<<<"hub.secret", self.secret>>>> ELSE <<>>)
  IN <<[kind |-> "post", url |-> self.hubUrl, form |-> data,
        contentType |-> "application/x-www-form-urlencoded"]>>

\* !channels
Falsy(v) ==
  \/ v.type = "undefined"
  \/ v.type = "string" /\ v.val = <<>>
  \/ v.type = "number" /\ v.val = 0

\* channels.forEach(channel => this._makeRequest(channel, type))
RECURSIVE forEachMakeRequest(_, _, _)
forEachMakeRequest(self, channels, type) ==
  IF channels = <<>> THEN <<>>
  ELSE _makeRequest(self, Head(channels), type)
         \o forEachMakeRequest(self, Tail(channels), type)

\* subscribe(channels)
subscribe(self, channels) ==
  IF Falsy(channels) \/ (channels.type # "string" /\ channels.type # "array")
  THEN <<Throw("argument")>>
  ELSE IF channels.type = "string"
  THEN _makeRequest(self, channels, "subscribe")
  ELSE forEachMakeRequest(self, channels.val, "subscribe")

\* unsubscribe(channels): the string branch calls this.makeRequest, which
\* the class does not define
unsubscribe(self, channels) ==
  IF Falsy(channels) \/ (channels.type # "string" /\ channels.type # "array")
  THEN <<Throw("argument")>>
  ELSE IF channels.type = "string"
  THEN <<Throw("TypeError")>>
  ELSE forEachMakeRequest(self, channels.val, "unsubscribe")

(***************************************************************************)
(* Signature check: crypto.createHmac(algo, secret).update(raw).digest.    *)
(***************************************************************************)
sha1 == <<"s", "h", "a", "1">>
md5 == <<"m", "d", "5">>

\* the algorithm names createHmac accepts; any other name makes it throw
Hashes == {sha1, md5}

RawBodies == {"raw1", "raw2"}

\* hmac.digest('hex'): lower-case hex digits, a different digest for every
\* different (algorithm, key, data)
HmacDigest(algo, key, data) ==
  <<IF algo = sha1 THEN "a" ELSE "b",
    IF key = "k1" THEN "c" ELSE IF key = "k2" THEN "d" ELSE "e",
    IF data = "raw1" THEN "f" ELSE "0">>

\* signatureParts.shift() || ''
ShiftOrEmpty(parts) == IF parts = <<>> THEN <<>> ELSE Head(parts)

\* signatureParts.pop() || '', on what shift() left in the array
PopOrEmpty(parts) ==
  IF Len(parts) <= 1 THEN <<>> ELSE parts[Len(parts)]

\* the algorithm name the handler reads from the header
HeaderAlgo(header) == toLowerCase(ShiftOrEmpty(Split(header)))

\* HeaderSignature taking what follows the first "=" up to the next one
HeaderSignature_Second(header) ==
  toLowerCase(IF Len(Split(header)) <= 1 THEN <<>> ELSE Split(header)[2])

\* the signature the handler reads from the header
HeaderSignature(header) == toLowerCase(PopOrEmpty(Split(header)))

(***************************************************************************)
(* Feed payload.                                                           *)
(***************************************************************************)
\* evaluating the object literal `data` throws a TypeError when it indexes
\* a missing element
ExtractThrows(body) ==
  \/ ~Has(body, "yt:videoid")
  \/ ~Has(body, "title")
  \/ ~Has(body, "link")
  \/ ~Has(body.link[1], "$")
  \/ ~Has(body, "yt:channelid")
  \/ ~Has(body, "author")
  \/ ~Has(body.author[1], "name")
  \/ ~Has(body.author[1], "uri")
  \/ ~Has(body, "published")
  \/ ~Has(body, "updated")

\* the object literal `data` built from the entry
Extract(body) ==
  [video     |-> Obj([id    |-> <<body["yt:videoid"][1]>>,
                      title |-> <<body.title[1]>>,
                      link  |-> IF Has(body.link[1]["$"], "href")
                                THEN <<body.link[1]["$"].href>> ELSE <<>>]),
   channel   |-> [id   |-> body["yt:channelid"][1],
                  name |-> body.author[1].name[1],
                  link |-> body.author[1].uri[1]],
   published |-> body.published[1],
   updated   |-> body.updated[1]]

(***************************************************************************)
(* Callback handler.                                                       *)
(***************************************************************************)
\* _onGetRequest rejecting only a query that lacks both parameters
_onGetRequest_And(self, req, throws) ==
  LET params == req.query
  IN IF ~TruthySeq(params, "hub.topic") /\ ~Truthy(params, "hub.mode")
     THEN <<Respond(400, "text/plain", "Bad Request")>>
     ELSE <<Respond(200, "text/plain",
                    IF Has(params, "hub.challenge")
                    THEN params["hub.challenge"] ELSE "")>>

\* _onGetRequest emitting the event before it answers the challenge
_onGetRequest_EmitFirst(self, req, throws) ==
  LET params == req.query
  IN IF ~TruthySeq(params, "hub.topic") \/ ~Truthy(params, "hub.mode")
     THEN <<Respond(400, "text/plain", "Bad Request")>>
     ELSE LET data == Obj([type    |-> <<params["hub.mode"]>>,
                           channel |-> <<Replace(params["hub.topic"],
                                                 base_topic)>>,
                           lease_seconds |->
                             IF Truthy(params, "hub.lease_seconds")
                             THEN <<params["hub.lease_seconds"]>>
                             ELSE <<>>])
          IN emit(params["hub.mode"], data, throws)
             \o (IF throws THEN <<>>
                 ELSE <<Respond(200, "text/plain",
                                IF Has(params, "hub.challenge")
                                THEN params["hub.challenge"] ELSE "")>>)

\* _onGetRequest(req, res); params is the parsed query string
_onGetRequest(self, req, throws) ==
  LET params == req.query
  IN IF ~TruthySeq(params, "hub.topic") \/ ~Truthy(params, "hub.mode")
     THEN <<Respond(400, "text/plain", "Bad Request")>>
     ELSE LET data == Obj([type    |-> <<params["hub.mode"]>>,
                           channel |-> <<Replace(params["hub.topic"],
                                                 base_topic)>>,
                           lease_seconds |->
                             IF Truthy(params, "hub.lease_seconds")
                             THEN <<params["hub.lease_seconds"]>>
                             ELSE <<>>])
          IN <<Respond(200, "text/plain",
                       IF Has(params, "hub.challenge")
                       THEN params["hub.challenge"] ELSE "")>>
             \o emit(params["hub.mode"], data, throws)

\* the part of _onPostRequest after the signature check
PostDeliver(body, throws) ==
  IF ExtractThrows(body)
  THEN <<[kind |-> "extract"], Throw("TypeError")>>
  ELSE LET fired == emit("notified", Extract(body), throws)
       IN <<[kind |-> "extract"]>> \o fired
          \o (IF throws THEN <<>> ELSE <<sendStatus(200)>>)

\* PostVerify answering a signature mismatch like a missing signature
PostVerify_403(self, req, body, throws) ==
  IF Truthy(self, "secret")
  THEN LET header    == req.headers["x-hub-signature"]
           algo      == HeaderAlgo(header)
           signature == HeaderSignature(header)
       IN IF algo \notin Hashes
          THEN <<[kind |-> "hmac"], sendStatus(403)>>
          ELSE IF HmacDigest(algo, self.secret, req.rawBody) # signature
          THEN <<[kind |-> "hmac"], sendStatus(403)>>
          ELSE <<[kind |-> "hmac"]>> \o PostDeliver(body, throws)
  ELSE PostDeliver(body, throws)

\* PostVerify checking the signature whenever the request carries a header
PostVerify_HeaderChecked(self, req, body, throws) ==
  IF Truthy(self, "secret") \/ TruthySeq(req.headers, "x-hub-signature")
  THEN LET header    == req.headers["x-hub-signature"]
           algo      == HeaderAlgo(header)
           signature == HeaderSignature(header)
       IN IF algo \notin Hashes
          THEN <<[kind |-> "hmac"], sendStatus(403)>>
          ELSE IF \/ ~Truthy(self, "secret")
                  \/ HmacDigest(algo, self.secret, req.rawBody) # signature
          THEN <<[kind |-> "hmac"], sendStatus(200)>>
          ELSE <<[kind |-> "hmac"]>> \o PostDeliver(body, throws)
  ELSE PostDeliver(body, throws)

\* PostVerify answering an algorithm error like a signature mismatch
PostVerify_AlgoQuiet(self, req, body, throws) ==
  IF Truthy(self, "secret")
  THEN LET header    == req.headers["x-hub-signature"]
           algo      == HeaderAlgo(header)
           signature == HeaderSignature(header)
       IN IF algo \notin Hashes
          THEN <<[kind |-> "hmac"], sendStatus(200)>>
          ELSE IF HmacDigest(algo, self.secret, req.rawBody) # signature
          THEN <<[kind |-> "hmac"], sendStatus(200)>>
          ELSE <<[kind |-> "hmac"]>> \o PostDeliver(body, throws)
  ELSE PostDeliver(body, throws)

\* the part of _onPostRequest from `Match Secret` on
PostVerify(self, req, body, throws) ==
  IF Truthy(self, "secret")
  THEN LET header    == req.headers["x-hub-signature"]
           algo      == HeaderAlgo(header)
           signature == HeaderSignature(header)
       IN IF algo \notin Hashes
          THEN <<[kind |-> "hmac"], sendStatus(403)>>
          ELSE IF HmacDigest(algo, self.secret, req.rawBody) # signature
          THEN <<[kind |-> "hmac"], sendStatus(200)>>
          ELSE <<[kind |-> "hmac"]>> \o PostDeliver(body, throws)
  ELSE PostDeliver(body, throws)

\* _onPostRequest looking for the deletion marker before the signature header
_onPostRequest_DeletedFirst(self, req, throws) ==
  IF ~Has(req.body, "feed")
  THEN <<Throw("TypeError")>>
  ELSE IF Has(req.body.feed, "at:deleted-entry")
  THEN <<sendStatus(200)>>
  ELSE IF Truthy(self, "secret") /\ ~TruthySeq(req.headers, "x-hub-signature")
  THEN <<sendStatus(403)>>
  ELSE IF ~Has(req.body.feed, "entry")
  THEN <<Respond(400, "text/plain", "Bad Request")>>
  ELSE PostVerify(self, req, req.body.feed.entry[1], throws)

\* _onPostRequest without the deletion marker test
_onPostRequest_NoDeleted(self, req, throws) ==
  IF Truthy(self, "secret") /\ ~TruthySeq(req.headers, "x-hub-signature")
  THEN <<sendStatus(403)>>
  ELSE IF ~Has(req.body, "feed")
  THEN <<Throw("TypeError")>>
  ELSE IF ~Has(req.body.feed, "entry")
  THEN <<Respond(400, "text/plain", "Bad Request")>>
  ELSE PostVerify(self, req, req.body.feed.entry[1], throws)

\* _onPostRequest taking the last entry of the batch
_onPostRequest_LastEntry(self, req, throws) ==
  IF Truthy(self, "secret") /\ ~TruthySeq(req.headers, "x-hub-signature")
  THEN <<sendStatus(403)>>
  ELSE IF ~Has(req.body, "feed")
  THEN <<Throw("TypeError")>>
  ELSE IF Has(req.body.feed, "at:deleted-entry")
  THEN <<sendStatus(200)>>
  ELSE IF ~Has(req.body.feed, "entry")
  THEN <<Respond(400, "text/plain", "Bad Request")>>
  ELSE PostVerify(self, req,
                  req.body.feed.entry[Len(req.body.feed.entry)], throws)

\* _onPostRequest(req, res)
_onPostRequest(self, req, throws) ==
  IF Truthy(self, "secret") /\ ~TruthySeq(req.headers, "x-hub-signature")
  THEN <<sendStatus(403)>>
  ELSE IF ~Has(req.body, "feed")
  THEN <<Throw("TypeError")>>
  ELSE IF Has(req.body.feed, "at:deleted-entry")
  THEN <<sendStatus(200)>>
  ELSE IF ~Has(req.body.feed, "entry")
  THEN <<Respond(400, "text/plain", "Bad Request")>>
  ELSE PostVerify(self, req, req.body.feed.entry[1], throws)

\* _onRequest treating every method but GET as POST
_onRequest_ElsePost(self, req, throws) ==
  IF req.method = "GET" THEN _onGetRequest(self, req, throws)
  ELSE _onPostRequest(self, req, throws)

\* _onRequest(req, res)
_onRequest(self, req, throws) ==
  IF req.method = "GET" THEN _onGetRequest(self, req, throws)
  ELSE IF req.method = "POST" THEN _onPostRequest(self, req, throws)
  ELSE <<sendStatus(403)>>

(***************************************************************************)
(* Inputs: the requests the hub (or anyone else) sends, and the arguments  *)
(* the host passes.                                                        *)
(***************************************************************************)
UC1 == <<"U", "C", "1">>
UC2 == <<"U", "C", "2">>

\* hub.topic values: none, empty, the topic of a channel, a bare channel id,
\* the bare prefix, and a string with base_topic after its first character
Topics ==
  {<<>>, <<<<>>>>, <<base_topic \o UC1>>, <<base_topic \o UC2>>, <<UC1>>,
   <<base_topic>>, <<<<"x">> \o base_topic \o UC1>>}

\* hub.mode values: none, empty, the two intents, and two other words
Modes ==
  {<<>>, <<"">>, <<"subscribe">>, <<"unsubscribe">>, <<"notified">>,
   <<"publish">>}

Queries ==
  { Obj(("hub.mode" :> m) @@ ("hub.topic" :> t) @@
        ("hub.challenge" :> c) @@ ("hub.lease_seconds" :> l)) :
      m \in Modes, t \in Topics,
      c \in {<<>>, <<"abc">>}, l \in {<<>>, <<"432000">>} }

GetRequests == { [method |-> "GET", query |-> q] : q \in Queries }

\* an Atom entry as the XML parser hands it over: every element an array
Entry(videoid, title, link, channelid, author, published, updated) ==
  Obj(("yt:videoid" :> videoid) @@ ("title" :> title) @@ ("link" :> link) @@
      ("yt:channelid" :> channelid) @@ ("author" :> author) @@
      ("published" :> published) @@ ("updated" :> updated))

Link(href) == <<("$" :> [href |-> href])>>
Author(name, uri) == <<[name |-> <<name>>, uri |-> <<uri>>]>>

E1 == Entry(<<<<"vid1">>>>, <<<<"First">>>>, <<Link("http://y/1")>>,
            <<<<"chA">>>>, <<Author("Alice", "http://y/a")>>,
            <<<<"2020-01-01">>>>, <<<<"2020-01-02">>>>)
E2 == Entry(<<<<"vid2">>>>, <<<<"Second">>>>, <<Link("http://y/2")>>,
            <<<<"chB">>>>, <<Author("Bob", "http://y/b")>>,
            <<<<"2021-01-01">>>>, <<<<"2021-01-02">>>>)
\* an entry with no title element
ENoTitle == Entry(<<<<"vid3">>>>, <<>>, <<Link("http://y/3")>>,
                  <<<<"chA">>>>, <<Author("Alice", "http://y/a")>>,
                  <<<<"2022-01-01">>>>, <<<<"2022-01-02">>>>)
\* an entry whose link element has attributes but no href
ENoHref == Entry(<<<<"vid4">>>>, <<<<"Fourth">>>>,
                 <<<<("$" :> [rel |-> "alternate"])>>>>,
                 <<<<"chB">>>>, <<Author("Bob", "http://y/b")>>,
                 <<<<"2023-01-01">>>>, <<<<"2023-01-02">>>>)

Entries == {E1, E2, ENoTitle, ENoHref}
CompleteEntries == {E1, E2}
\* the entries the hub batches behind a first one
BatchEntries == {E1, E2, ENoTitle}

\* feed.entry: one entry, or a batch of up to MaxEntries entries
EntrySeqs ==
  { <<e>> : e \in Entries }
  \cup UNION { [1..n -> BatchEntries] : n \in 2..MaxEntries }

\* req.body: no feed element, or a feed with a deletion marker, entries,
\* both or neither
Bodies ==
  { Obj([feed |-> <<>>]),
    [feed |-> Obj(("at:deleted-entry" :> <<>>) @@ ("entry" :> <<>>))],
    [feed |-> Obj(("at:deleted-entry" :> <<<<"deleted">>>>) @@
                  ("entry" :> <<>>))],
    [feed |-> Obj(("at:deleted-entry" :> <<<<"deleted">>>>) @@
                  ("entry" :> <<<<E1>>>>))] }
  \cup { [feed |-> Obj(("entry" :> <<es>>))] : es \in EntrySeqs }

\* the digests of the first raw body, under every algorithm and key
Digests == { HmacDigest(a, k, "raw1") : a \in Hashes, k \in Secrets }
Sha1Digests == { HmacDigest(sha1, k, "raw1") : k \in Secrets }

\* X-Hub-Signature values: "<algo>=<digest>" with a right or a wrong digest,
\* in upper case, with a second "=", with an unsupported or an empty
\* algorithm name, with an empty signature, and with no "=" at all
SignatureTexts ==
  { a \o <<"=">> \o d : a \in Hashes, d \in Digests }
  \cup { toUpperCase(sha1 \o <<"=">> \o d) : d \in Sha1Digests }
  \cup { sha1 \o <<"=", "0", "=">> \o d : d \in Sha1Digests }
  \cup { a \o <<"=">> \o HmacDigest(sha1, "k1", "raw1") : a \in {<<"x">>, <<>>} }
  \cup { sha1, <<"x">>, sha1 \o <<"=">> }

\* every header of up to MaxHeaderLen characters over a letter in both cases
\* and "="
ShortHeaderTexts ==
  UNION { [1..n -> {"a", "A", "="}] : n \in 1..MaxHeaderLen }

\* the header: absent, empty, or one of the texts
SignatureHeaders ==
  {<<>>, <<<<>>>>} \cup { <<t>> : t \in SignatureTexts \cup ShortHeaderTexts }

PostRequests ==
  { [method |-> "POST", headers |-> Obj(("x-hub-signature" :> h)),
     body |-> b, rawBody |-> r] :
      h \in SignatureHeaders, b \in Bodies, r \in RawBodies }

\* requests with another method, some carrying what a notification carries
OtherRequests ==
  { [method |-> m, headers |-> Obj(("x-hub-signature" :> h)),
     body |-> [feed |-> b], rawBody |-> "raw1"] :
      m \in {"PUT", "DELETE"},
      h \in {<<>>, <<sha1 \o <<"=">> \o HmacDigest(sha1, "k1", "raw1")>>},
      b \in {("entry" :> <<E1>>), ("at:deleted-entry" :> <<"deleted">>)} }

\* arguments of subscribe / unsubscribe
ChannelElems == {Str(UC1), Str(UC2), Num(5)}
ChannelArgs ==
  {Undefined, Num(0), Num(5), Str(<<>>), Str(UC1), Str(UC2)}
  \cup { Arr(a) : a \in UNION { [1..n -> ChannelElems] : n \in 0..MaxChannels } }

(***************************************************************************)
(* The state machine.                                                      *)
(***************************************************************************)
InitNotifier ==
  /\ this \in { Constructor(o) : o \in OptionsSet }
  /\ op = [call |-> "idle"]
  /\ trace = <<>>

\* the host's listeners return normally
Init == InitNotifier /\ listenerThrows = FALSE

\* the host's listeners may throw
InitAnyListener == InitNotifier /\ listenerThrows \in BOOLEAN

\* the hub verifies an intent
HandleGet ==
  /\ op.call = "idle"
  /\ \E req \in GetRequests :
       /\ op' = [call |-> "_onRequest", req |-> req]
       /\ trace' = _onRequest(this, req, listenerThrows)
       /\ UNCHANGED <<this, listenerThrows>>

\* HandlePost keeping the raw body of the request on the notifier
HandlePost_KeepsRawBody ==
  /\ op.call = "idle"
  /\ \E req \in PostRequests :
       /\ op' = [call |-> "_onRequest", req |-> req]
       /\ trace' = _onRequest(this, req, listenerThrows)
       /\ this' = ("rawBody" :> req.rawBody) @@ this
       /\ UNCHANGED listenerThrows

\* the hub delivers a notification
HandlePost ==
  /\ op.call = "idle"
  /\ \E req \in PostRequests :
       /\ op' = [call |-> "_onRequest", req |-> req]
       /\ trace' = _onRequest(this, req, listenerThrows)
       /\ UNCHANGED <<this, listenerThrows>>

\* a request with any other method arrives
HandleOther ==
  /\ op.call = "idle"
  /\ \E req \in OtherRequests :
       /\ op' = [call |-> "_onRequest", req |-> req]
       /\ trace' = _onRequest(this, req, listenerThrows)
       /\ UNCHANGED <<this, listenerThrows>>

\* the host calls subscribe(channels)
Subscribe ==
  /\ op.call = "idle"
  /\ \E channels \in ChannelArgs :
       /\ op' = [call |-> "subscribe", channels |-> channels]
       /\ trace' = subscribe(this, channels)
       /\ UNCHANGED <<this, listenerThrows>>

\* the host calls unsubscribe(channels)
Unsubscribe ==
  /\ op.call = "idle"
  /\ \E channels \in ChannelArgs :
       /\ op' = [call |-> "unsubscribe", channels |-> channels]
       /\ trace' = unsubscribe(this, channels)
       /\ UNCHANGED <<this, listenerThrows>>

\* the operation in progress returns (or its exception reaches the caller):
\* nothing of it is kept, the notifier holds no per-request state
Return ==
  /\ op.call # "idle"
  /\ op' = [call |-> "idle"]
  /\ trace' = <<>>
  /\ UNCHANGED <<this, listenerThrows>>

Next ==
  HandleGet \/ HandlePost \/ HandleOther \/ Subscribe \/ Unsubscribe \/ Return

Spec == Init /\ [][Next]_vars

SpecAnyListener == InitAnyListener /\ [][Next]_vars

(***************************************************************************)
(* What the last operation did.                                            *)
(***************************************************************************)
Of(kind) == SelectSeq(trace, LAMBDA e : e.kind = kind)

\* the HTTP responses sent
Responses == Of("respond")
\* the events emitted
Events == Of("emit")
\* the requests posted to the hub
Posts == Of("post")
\* an exception left the operation
Thrown == Of("throw") # <<>>

IsRequest == op.call = "_onRequest"
IsGet == IsRequest /\ op.req.method = "GET"
IsPost == IsRequest /\ op.req.method = "POST"

\* a secret is configured
SecretSet == Truthy(this, "secret")

TypeOK ==
  /\ listenerThrows \in BOOLEAN
  /\ op.call \in {"idle", "_onRequest", "subscribe", "unsubscribe"}
  /\ \A i \in 1..Len(trace) :
       trace[i].kind \in {"respond", "emit", "post", "throw", "hmac", "extract"}

(***************************************************************************)
(* Properties of the notification (POST) path.                             *)
(***************************************************************************)
\* the X-Hub-Signature header of the request handled, missing or empty
NoSignatureHeader == ~TruthySeq(op.req.headers, "x-hub-signature")

HasFeed == Has(op.req.body, "feed")
HasDeleted == HasFeed /\ Has(op.req.body.feed, "at:deleted-entry")
HasEntry == HasFeed /\ Has(op.req.body.feed, "entry")

\* the header names a supported algorithm
AlgoSupported == HeaderAlgo(op.req.headers["x-hub-signature"]) \in Hashes

\* the signature in the header is the HMAC of the raw body under the secret
SignatureMatches ==
  /\ AlgoSupported
  /\ HeaderSignature(op.req.headers["x-hub-signature"])
       = HmacDigest(HeaderAlgo(op.req.headers["x-hub-signature"]),
                    this.secret, op.req.rawBody)

\* exactly one response, with this status
RespondedOnce(code) == Len(Responses) = 1 /\ Responses[1].status = code

\* C1: a POST handled while a secret is configured, with a missing or empty
\* X-Hub-Signature header, is answered 403 and emits no event, whatever the
\* body holds.
C1_MissingSignature403 ==
  (IsPost /\ SecretSet /\ NoSignatureHeader)
    => (RespondedOnce(403) /\ Events = <<>> /\ ~Thrown)

\* C1 witness: such a POST whose body carries a deletion marker was handled
C1_Witness ==
  /\ IsPost /\ SecretSet /\ NoSignatureHeader /\ HasDeleted
  /\ RespondedOnce(403)

\* C2 as claimed: a POST handled while a secret is configured, with a
\* signature header whose signature is not the HMAC of the raw body, is
\* answered 200 and emits no event.  (Read in the claim's favour: the body
\* has a feed element and the header names an algorithm that has an HMAC.)
C2_Original ==
  (IsPost /\ SecretSet /\ ~NoSignatureHeader /\ HasFeed /\ AlgoSupported
     /\ ~SignatureMatches)
    => (RespondedOnce(200) /\ Events = <<>>)

\* C2, amended: when the header names a supported algorithm and the signature
\* is not the HMAC, no event is emitted and no 403 is sent; the answer is 200
\* when the feed holds a deletion marker or an entry, 400 when it holds
\* neither.
C2_MismatchQuiet ==
  (IsPost /\ SecretSet /\ ~NoSignatureHeader /\ AlgoSupported
     /\ ~SignatureMatches)
    => /\ Events = <<>>
       /\ \A i \in 1..Len(Responses) : Responses[i].status # 403
       /\ (HasDeleted \/ HasEntry) => RespondedOnce(200)
       /\ (HasFeed /\ ~HasDeleted /\ ~HasEntry) => RespondedOnce(400)

\* C2 witness: a mismatching signature on a feed with a complete entry was
\* answered 200
C2_Witness ==
  /\ IsPost /\ SecretSet /\ ~NoSignatureHeader /\ AlgoSupported
  /\ ~SignatureMatches
  /\ HasEntry /\ ~HasDeleted /\ op.req.body.feed.entry[1] = E1
  /\ RespondedOnce(200) /\ Events = <<>>

\* the request is authentic: no secret is configured, or the signature is valid
Authentic == ~SecretSet \/ (~NoSignatureHeader /\ SignatureMatches)

\* the event is the "notified" event of this entry
NotifiedOf(e, entry) ==
  /\ e.name = "notified"
  /\ e.data.video.id = entry["yt:videoid"][1]
  /\ e.data.channel.id = entry["yt:channelid"][1]
  /\ e.data.published = entry.published[1]
  /\ e.data.updated = entry.updated[1]

\* C3 as claimed: an authentic POST with a non-deleted body holding at least
\* one complete entry emits exactly one "notified" event, with the values of
\* the first entry, and is answered 200.
C3_Original ==
  (IsPost /\ Authentic /\ HasEntry /\ ~HasDeleted
     /\ \E i \in 1..Len(op.req.body.feed.entry) :
          op.req.body.feed.entry[i] \in CompleteEntries)
    => /\ Len(Events) = 1
       /\ NotifiedOf(Events[1], op.req.body.feed.entry[1])
       /\ RespondedOnce(200)

\* C3, amended: an authentic POST with a non-deleted body whose first entry
\* is complete emits exactly one "notified" event, with the values of the
\* first entry, and is answered 200.
C3_FirstEntryNotified ==
  (IsPost /\ Authentic /\ HasEntry /\ ~HasDeleted
     /\ op.req.body.feed.entry[1] \in CompleteEntries)
    => /\ Len(Events) = 1
       /\ NotifiedOf(Events[1], op.req.body.feed.entry[1])
       /\ RespondedOnce(200)
       /\ ~Thrown

\* C3 witness: a signed batch of two different complete entries was handled
C3_Witness ==
  /\ IsPost /\ SecretSet /\ ~NoSignatureHeader /\ SignatureMatches
  /\ HasEntry /\ ~HasDeleted
  /\ Len(op.req.body.feed.entry) >= 2
  /\ op.req.body.feed.entry[1] = E1 /\ op.req.body.feed.entry[2] = E2
  /\ Len(Events) = 1 /\ Events[1].data.video.id = "vid1"

\* C4 as claimed: a POST whose feed holds a deletion marker is answered 200
\* and emits no event, whatever the secret and the signature header.
C4_Original ==
  (IsPost /\ HasDeleted) => (RespondedOnce(200) /\ Events = <<>>)

\* C4, amended: a POST whose feed holds a deletion marker emits no event and
\* is answered 200, except that it is answered 403 when a secret is
\* configured and the signature header is missing or empty.
C4_DeletedQuiet ==
  (IsPost /\ HasDeleted)
    => /\ Events = <<>>
       /\ ~Thrown
       /\ RespondedOnce(IF SecretSet /\ NoSignatureHeader THEN 403 ELSE 200)

\* C4 witness: a deletion marker next to an entry, under a secret and with a
\* wrong signature, was answered 200
C4_Witness ==
  /\ IsPost /\ HasDeleted /\ HasEntry
  /\ SecretSet /\ ~NoSignatureHeader /\ ~SignatureMatches
  /\ RespondedOnce(200)

(***************************************************************************)
(* Properties of the intent verification (GET) path.                       *)
(***************************************************************************)
\* C5: a GET whose query lacks hub.topic or hub.mode (missing or empty) is
\* answered 400 with the plain-text body "Bad Request" and emits no event.
C5_BadRequest ==
  (IsGet /\ (~TruthySeq(op.req.query, "hub.topic")
               \/ ~Truthy(op.req.query, "hub.mode")))
    => /\ Responses = <<Respond(400, "text/plain", "Bad Request")>>
       /\ Events = <<>>
       /\ ~Thrown

\* C5 witness: a GET with a topic and a challenge but no mode was answered 400
C5_Witness ==
  /\ IsGet
  /\ TruthySeq(op.req.query, "hub.topic")
  /\ ~Has(op.req.query, "hub.mode")
  /\ Has(op.req.query, "hub.challenge")
  /\ RespondedOnce(400)

\* a GET carrying both hub.topic and hub.mode
CarriesBoth ==
  IsGet /\ TruthySeq(op.req.query, "hub.topic") /\ Truthy(op.req.query, "hub.mode")

\* s without its leading base_topic; s itself when it does not start with it
StripPrefix(s) ==
  IF Len(s) >= Len(base_topic) /\ SubSeq(s, 1, Len(base_topic)) = base_topic
  THEN SubSeq(s, Len(base_topic) + 1, Len(s))
  ELSE s

\* C6 as claimed: a GET carrying both hub.topic and hub.mode is answered 200
\* with the hub.challenge value as body (empty when there is none) and emits
\* exactly one event, with type = hub.mode and channel = hub.topic with the
\* topic prefix stripped.
C6_Original ==
  CarriesBoth
    => /\ Responses = <<Respond(200, "text/plain",
                                IF Has(op.req.query, "hub.challenge")
                                THEN op.req.query["hub.challenge"] ELSE "")>>
       /\ Len(Events) = 1
       /\ Events[1].name = op.req.query["hub.mode"]
       /\ Events[1].data.type = op.req.query["hub.mode"]
       /\ Events[1].data.channel = StripPrefix(op.req.query["hub.topic"])

\* C7: a request whose method is neither GET nor POST is answered 403 and
\* nothing else happens: no signature check, no extraction, no event.
C7_OtherMethod403 ==
  (IsRequest /\ op.req.method \notin {"GET", "POST"})
    => trace = <<sendStatus(403)>>

\* C7 witness: a PUT carrying a valid signature and an entry was answered 403
C7_Witness ==
  /\ IsRequest /\ op.req.method = "PUT"
  /\ Has(op.req.headers, "x-hub-signature") /\ Has(op.req.body.feed, "entry")
  /\ RespondedOnce(403)

(***************************************************************************)
(* Properties of the events.                                               *)
(***************************************************************************)
\* the shape of a NotificationEvent
IsNotificationEvent(d) ==
  DOMAIN d = {"video", "channel", "published", "updated"}

\* the shape of an IntentVerificationEvent
IsIntentVerificationEvent(d) ==
  /\ {"type", "channel"} \subseteq DOMAIN d
  /\ d.type \in {"subscribe", "unsubscribe"}

\* C8 as claimed: every event emitted is named "subscribe", "unsubscribe" or
\* "notified"; the first two carry an IntentVerificationEvent, and "notified"
\* carries a NotificationEvent of a POST that passed the signature check.
C8_Original ==
  IsRequest
    => \A i \in 1..Len(Events) :
         /\ Events[i].name \in {"subscribe", "unsubscribe", "notified"}
         /\ Events[i].name = "notified"
              => (IsPost /\ Authentic /\ IsNotificationEvent(Events[i].data))
         /\ Events[i].name \in {"subscribe", "unsubscribe"}
              => IsIntentVerificationEvent(Events[i].data)

(***************************************************************************)
(* Properties of subscribe / unsubscribe.                                  *)
(***************************************************************************)
IsSubscription == op.call \in {"subscribe", "unsubscribe"}

\* the ids the call was given: the string, or the elements of the collection
GivenIds ==
  IF op.channels.type = "string" THEN <<op.channels>>
  ELSE IF op.channels.type = "array" THEN op.channels.val
  ELSE <<>>

\* the argument is a non-empty string or a collection of strings
GivenStrings ==
  \/ op.channels.type = "string" /\ op.channels.val # <<>>
  \/ /\ op.channels.type = "array"
     /\ \A i \in 1..Len(op.channels.val) : op.channels.val[i].type = "string"

\* C9 as claimed: subscribe and unsubscribe, given one id or a collection of
\* n ids, fire one hub request per id, each with hub.mode equal to the
\* operation called, and raise no exception.
C9_Original ==
  (IsSubscription /\ GivenStrings)
    => /\ ~Thrown
       /\ Len(Posts) = Len(GivenIds)
       /\ \A i \in 1..Len(Posts) :
            /\ Field(Posts[i].form, "hub.mode") = <<op.call>>
            /\ Field(Posts[i].form, "hub.topic")
                 = <<base_topic \o GivenIds[i].val>>

\* C10: every request fired goes to hubUrl with hub.callback = hubCallback,
\* hub.mode = the intent, hub.topic = base_topic + the channel id, and
\* hub.secret = secret exactly when a secret is set.
C10_RequestFields ==
  (IsSubscription /\ GivenStrings)
    => \A i \in 1..Len(Posts) :
         /\ Posts[i].url = this.hubUrl
         /\ Field(Posts[i].form, "hub.callback") = <<this.hubCallback>>
         /\ Field(Posts[i].form, "hub.mode") = <<op.call>>
         /\ Field(Posts[i].form, "hub.topic")
              = <<base_topic \o GivenIds[i].val>>
         /\ Field(Posts[i].form, "hub.secret")
              = IF SecretSet THEN <<this.secret>> ELSE <<>>

\* C10 witness: requests were fired for both intents, with and without a
\* secret; this one is an unsubscription of two channels under a secret
C10_Witness ==
  /\ op.call = "unsubscribe" /\ GivenStrings /\ SecretSet
  /\ Len(Posts) = 2
  /\ Field(Posts[2].form, "hub.topic") = <<base_topic \o UC2>>

\* the argument is a non-empty string or a non-empty collection of strings
GivenValid ==
  GivenStrings /\ (op.channels.type = "array" => op.channels.val # <<>>)

\* C11 as claimed: subscribe and unsubscribe raise an argument error and fire
\* no hub request when the input is absent, empty (empty string or empty
\* collection), or neither a string nor a collection of strings only.
C11_Original ==
  (IsSubscription /\ ~GivenValid) => trace = <<Throw("argument")>>

(***************************************************************************)
(* More properties of the notification (POST) path.                        *)
(***************************************************************************)
\* the first entry of the feed handled
FirstEntry == op.req.body.feed.entry[1]

\* C12 as claimed: with no secret configured, a POST with a non-deleted body
\* containing a complete entry yields a "notified" event and a 200 response,
\* whatever the X-Hub-Signature header, and no signature check is made.
C12_Original ==
  (IsPost /\ ~SecretSet /\ HasEntry /\ ~HasDeleted
     /\ \E i \in 1..Len(op.req.body.feed.entry) :
          op.req.body.feed.entry[i] \in CompleteEntries)
    => /\ Of("hmac") = <<>>
       /\ Len(Events) = 1 /\ Events[1].name = "notified"
       /\ RespondedOnce(200)

\* C12, amended: with no secret configured, a POST with a non-deleted body
\* whose first entry is complete yields the "notified" event of that entry
\* and a 200 response, whatever the X-Hub-Signature header (absent, well
\* formed, malformed, unsupported algorithm), and no signature check is made.
C12_NoSecretNoCheck ==
  (IsPost /\ ~SecretSet /\ HasEntry /\ ~HasDeleted
     /\ FirstEntry \in CompleteEntries)
    => /\ Of("hmac") = <<>>
       /\ trace = <<[kind |-> "extract"],
                    [kind |-> "emit", name |-> "notified",
                     data |-> Extract(FirstEntry)],
                    sendStatus(200)>>

\* C12 witness: without a secret, a header naming an unsupported algorithm
\* did not keep the entry from being notified
C12_Witness ==
  /\ IsPost /\ ~SecretSet /\ ~NoSignatureHeader /\ ~AlgoSupported
  /\ HasEntry /\ ~HasDeleted /\ FirstEntry = E2
  /\ Len(Events) = 1 /\ RespondedOnce(200)

\* C13 as claimed: under a secret, with an entry present, a header naming an
\* unsupported algorithm (the empty name included) is answered 200, like a
\* signature mismatch, and emits no event.
C13_Original ==
  (IsPost /\ SecretSet /\ ~NoSignatureHeader /\ HasEntry /\ ~AlgoSupported)
    => (RespondedOnce(200) /\ Events = <<>>)

\* C13, amended: under a secret, with an entry present and no deletion
\* marker, a header naming an unsupported algorithm (the empty name
\* included) is answered 403, like a missing signature, and emits no event.
C13_AlgoError403 ==
  (IsPost /\ SecretSet /\ ~NoSignatureHeader /\ HasEntry /\ ~HasDeleted
     /\ ~AlgoSupported)
    => (RespondedOnce(403) /\ Events = <<>> /\ ~Thrown)

\* C13 witness: a header with an empty algorithm name and the right digest
\* was answered 403
C13_Witness ==
  /\ IsPost /\ SecretSet /\ ~NoSignatureHeader /\ HasEntry /\ ~HasDeleted
  /\ HeaderAlgo(op.req.headers["x-hub-signature"]) = <<>>
  /\ HeaderSignature(op.req.headers["x-hub-signature"])
       = HmacDigest(sha1, this.secret, op.req.rawBody)
  /\ RespondedOnce(403)

\* C14 as claimed: an authentic POST whose entry lacks an expected field is
\* answered 400, emits no event and raises no exception.
C14_Original ==
  (IsPost /\ Authentic /\ HasEntry /\ ~HasDeleted
     /\ FirstEntry \notin CompleteEntries)
    => (RespondedOnce(400) /\ Events = <<>> /\ ~Thrown)

(***************************************************************************)
(* More properties of the intent verification (GET) path.                  *)
(***************************************************************************)
\* C15: on the GET path the 200 challenge response is sent before the event
\* is emitted, so a listener that throws during emission leaves the response
\* as it was sent.
C15_ResponseBeforeEvent ==
  CarriesBoth
    => /\ Len(trace) >= 2
       /\ trace[1] = Respond(200, "text/plain",
                             IF Has(op.req.query, "hub.challenge")
                             THEN op.req.query["hub.challenge"] ELSE "")
       /\ trace[2].kind = "emit"
       /\ Len(Responses) = 1
       /\ Thrown <=> listenerThrows

\* C15 witness: a listener threw on a subscribe event after the challenge
\* "abc" had been answered
C15_Witness ==
  /\ CarriesBoth /\ listenerThrows /\ Thrown
  /\ op.req.query["hub.mode"] = "subscribe"
  /\ Responses = <<Respond(200, "text/plain", "abc")>>
  /\ Len(Events) = 1

\* C16 as claimed: an emitted event carries the lease only when its type is
\* subscribe and the hub supplied hub.lease_seconds; an unsubscribe event
\* never carries it.
C16_Original ==
  IsGet
    => \A i \in 1..Len(Events) :
         Has(Events[i].data, "lease_seconds")
           => /\ Events[i].data.type = "subscribe"
              /\ Truthy(op.req.query, "hub.lease_seconds")

\* the channel ids whose topic the hub sends back
RoundTripIds == {UC1, UC2}

\* the hub.topic the request builder sends for a channel id
TopicBuiltFor(c) ==
  Field(_makeRequest(this, Str(c), "subscribe")[1].form, "hub.topic")[1]

\* C18 as claimed: when hub.topic is the topic the request builder produces
\* for a channel id, the channel of the event is that id; and whatever is
\* removed from hub.topic is a leading base_topic.
C18_Original ==
  CarriesBoth
    => /\ \A c \in RoundTripIds :
            op.req.query["hub.topic"] = TopicBuiltFor(c)
              => Events[1].data.channel = c
       /\ Events[1].data.channel # op.req.query["hub.topic"]
            => op.req.query["hub.topic"]
                 = base_topic \o Events[1].data.channel

(***************************************************************************)
(* Properties of the handler as a whole.                                   *)
(***************************************************************************)
\* C19 as claimed: every invocation of the callback handler sends exactly one
\* HTTP response, whatever the method, query, headers and parsed body, and
\* whether or not a listener throws.
C19_Original == IsRequest => Len(Responses) = 1

EqPositions(s) == {i \in 1..Len(s) : s[i] = "="}

\* the portion of s before its first "=", s itself when it has none
BeforeFirstEq(s) ==
  IF EqPositions(s) = {} THEN s
  ELSE SubSeq(s, 1, (CHOOSE i \in EqPositions(s) :
                       \A j \in EqPositions(s) : i <= j) - 1)

\* the portion of s after its last "=", empty when it has none
AfterLastEq(s) ==
  IF EqPositions(s) = {} THEN <<>>
  ELSE SubSeq(s, (CHOOSE i \in EqPositions(s) :
                    \A j \in EqPositions(s) : i >= j) + 1, Len(s))

\* the request was handed to the extractor
Delivered == Of("extract") # <<>>

\* C20: the algorithm name used is the lower-cased portion of the header
\* before its first "=", the signature compared is the lower-cased portion
\* after its last "="; a header without "=" gives the whole header as
\* algorithm and an empty signature, which matches no digest; and the
\* notification goes through exactly when that algorithm is supported and
\* that signature is the lower-case hex digest.
C20_HeaderParts ==
  (IsPost /\ ~NoSignatureHeader)
    => LET header == op.req.headers["x-hub-signature"]
           algo   == toLowerCase(BeforeFirstEq(header))
           sig    == toLowerCase(AfterLastEq(header))
       IN /\ HeaderAlgo(header) = algo
          /\ HeaderSignature(header) = sig
          /\ EqPositions(header) = {}
               => (algo = toLowerCase(header) /\ sig = <<>>)
          /\ (SecretSet /\ HasEntry /\ ~HasDeleted)
               => /\ Delivered
                      <=> (algo \in Hashes
                           /\ sig = HmacDigest(algo, this.secret,
                                               op.req.rawBody))
                  /\ (EqPositions(header) = {}) => ~Delivered

\* C20 witness: a header with two "=" whose last part is the digest was
\* accepted
C20_Witness ==
  /\ IsPost /\ SecretSet /\ ~NoSignatureHeader /\ HasEntry /\ ~HasDeleted
  /\ Cardinality(EqPositions(op.req.headers["x-hub-signature"])) = 2
  /\ Delivered /\ Len(Events) = 1

====
